---- MODULE Spec2Model ----
(***************************************************************************)
(* TechNewsHub: the news and patent aggregation Lambdas, the refresh       *)
(* trigger with its Step Functions sweep and WebSocket broadcast, the      *)
(* WebSocket session registry and the deep-dive (related content) Lambda.  *)
(*                                                                         *)
(* Strings the code only passes around are string tokens or tagged tuples  *)
(* (<<"title", provider, i>>); an absent JSON field is Nil (tuple-valued   *)
(* fields) or Undefined (string-valued fields); the empty string is        *)
(* EmptyStr.  Confidences are in thousandths (0.9 is 900).                  *)
(***************************************************************************)
EXTENDS Integers, Sequences, FiniteSets, TLC

VARIABLES
    cache,      \* ContentCache table: key <<section, period>> -> record
    pending,    \* the event waiting for its Lambda invocation
    resp,       \* what the last invocation answered
    calls,      \* outbound provider calls of the last invocation, in order
    gen,        \* invocations so far (the source of fresh uuid() values)
    clock,      \* wall clock, seconds
    handled,    \* the event of the last invocation
    writes,     \* per key, its successful cache writes, oldest first
    exec,       \* the execution of RefreshStateMachine
    pairSt,     \* its Map iterations: (section, period) -> progress
    trig,       \* the dailyRefresh invocation: position and event detail
    broadcast,  \* the pushes of the last dailyRefresh invocation
    registry,   \* WebSocketSessions table: connectionId -> item
    live,       \* the connections API Gateway holds open
    inflight,   \* connections with a MESSAGE event not yet handled
    attempts,   \* UpdateCommands the last invocation sent to the cache
    running     \* concurrent fetchNews invocations: origin -> progress

lambdaVars == <<cache, resp, calls, handled, writes, attempts>>

reqVars == <<pending, gen, clock>>

sweepVars == <<exec, pairSt>>

notifyVars == <<trig, broadcast>>

wsVars == <<registry, live, inflight>>

vars == <<cache, pending, resp, calls, gen, clock, handled, writes,
          exec, pairSt, trig, broadcast, registry, live, inflight, attempts,
          running>>

-----------------------------------------------------------------------------
(* Bounds of the model *)

MaxProviderItems == 11   \* longest item list a provider answers with
MaxRequests == 2         \* invocations in one behaviour of Spec
MaxTick == 1             \* seconds that may pass between two invocations
MaxSweepPairs == 3       \* Map iterations of the configured sixteen that are swept
MaxConnections == 2      \* WebSocket connections
MaxCandidates == 2       \* news items of a record a deep dive reads
MaxTreeDepth == 7        \* levels of the deepest stored related tree
MaxDepthAsked == 7       \* largest depth asked, besides 100

(* Program constants *)

MaxNewsItems == 10
MaxPatentItems == 10
MaxPatentLines == 5
PlaceholderCount == 3
PlaceholderScore == 50
NullItemConfidence == 600
NullRecordConfidence == 500
GeminiConfidence == 700
ChatGptConfidence == 600
PatentDefaultConfidence == 600
ChatGptImpactScore == 60
PatentPlaceholderScore == 55
TtlSeconds == 86400
PlaceholderRootScore == 60
PlaceholderChildScore == 55
PlaceholderChildren == 2
MaxRelated == 3
DefaultDepth == 3
MaxDepth == 5
DefaultRelatedScore == 60
RelatedTableConfigured == TRUE

-----------------------------------------------------------------------------
(* JavaScript values *)

Nil == <<>>
Undefined == "<undefined>"
EmptyStr == <<"">>
NoConf == 0 - 1
Missing == 0 - 1

\* a ?? b on tuple-valued fields
OrElse(a, b) == IF a # Nil THEN a ELSE b

\* a ?? b on string-valued fields
OrElseStr(a, b) == IF a # Undefined THEN a ELSE b

\* a conversion that would drop the fraction
TruncPercent(permille) == permille \div 10

\* Math.round(permille / 10) for a non-negative number of thousandths
RoundPercent(permille) == (permille + 5) \div 10

\* Math.round(tenths / 10) for a non-negative number of tenths
RoundTenths(tenths) == (tenths + 5) \div 10

\* Math.round(sum / n) for sum >= 0, n >= 1
RoundDiv(sum, n) == (2 * sum + n) \div (2 * n)

Min(a, b) == IF a < b THEN a ELSE b

Max(a, b) == IF a > b THEN a ELSE b

\* Array.prototype.slice(0, n)
Slice(s, n) == SubSeq(s, 1, Min(Len(s), n))

RECURSIVE SumScores(_, _)
SumScores(s, field) ==
    IF s = <<>> THEN 0 ELSE s[1][field] + SumScores(Tail(s), field)

\* String.prototype.toUpperCase on the section names of the model
ToUpperCase(s) ==
    CASE s = "ml" -> "ML"
      [] s = "ai" -> "AI"
      [] s = "iot" -> "IOT"
      [] s = "quantum" -> "QUANTUM"
      [] s = "xx" -> "XX"
      [] OTHER -> s

-----------------------------------------------------------------------------
(* Providers' answers *)

\* the raw item number i of provider p, in one of the shapes a provider sends
RawItem(p, i, shape) ==
    CASE shape = "full" ->
            [id |-> <<"id", p, i>>, title |-> <<"title", p, i>>,
             summary |-> <<"summary", p, i>>, content |-> <<"content", p, i>>,
             url |-> <<"url", p, i>>, publishedAt |-> <<"date", p, i>>,
             confidence |-> 900]
      [] shape = "summaryOnly" ->
            [id |-> Nil, title |-> Nil,
             summary |-> <<"summary", p, i>>, content |-> Nil,
             url |-> Nil, publishedAt |-> Nil, confidence |-> NoConf]
      [] shape = "contentOnly" ->
            [id |-> <<"id", p, i>>, title |-> Nil,
             summary |-> Nil, content |-> <<"content", p, i>>,
             url |-> Nil, publishedAt |-> Nil, confidence |-> 796]
      [] shape = "emptyText" ->
            [id |-> <<"id", p, i>>, title |-> EmptyStr,
             summary |-> EmptyStr, content |-> <<"content", p, i>>,
             url |-> Nil, publishedAt |-> Nil, confidence |-> 0]
      [] OTHER ->
            [id |-> Nil, title |-> Nil, summary |-> Nil, content |-> Nil,
             url |-> Nil, publishedAt |-> Nil, confidence |-> NoConf]

Shapes == {"full", "summaryOnly", "contentOnly", "emptyText", "bare"}

RawItems(p, n, shape) == [i \in 1..n |-> RawItem(p, i, shape)]

\* what one provider does in one invocation: no credential, a failed call,
\* or an answer with n items
Outcome(st, n) == [st |-> st, n |-> n]

ItemCounts == {0, 1, 2, MaxProviderItems}

Outcomes ==
    {Outcome("absent", 0), Outcome("fail", 0)}
        \cup {Outcome("ok", n) : n \in ItemCounts}

ConfValues == {NoConf, 0, 794, 796, 900}

-----------------------------------------------------------------------------
(* fetchNews *)

NoResult == [some |-> FALSE, provider |-> "", confidence |-> 0, items |-> <<>>]

Result(provider, confidence, items) ==
    [some |-> TRUE, provider |-> provider, confidence |-> confidence,
     items |-> items]

\* callPerplexity / callGemini / callChatGpt: null without a key, throws when
\* the call fails, the provider's answer otherwise
CallOf(name, o, confidence, shape) ==
    CASE o.st = "absent" -> [threw |-> FALSE, called |-> FALSE, result |-> NoResult]
      [] o.st = "fail" -> [threw |-> TRUE, called |-> TRUE, result |-> NoResult]
      [] OTHER -> [threw |-> FALSE, called |-> TRUE,
                   result |-> Result(name, confidence, RawItems(name, o.n, shape))]

\* a call that would be sent even without a key, and fail
callPerplexityUnguarded(w) ==
    CallOf("perplexity",
           IF w.pplx.st = "absent" THEN Outcome("fail", 0) ELSE w.pplx,
           IF w.conf = NoConf THEN 0 ELSE w.conf, w.shape)

callPerplexity(w) ==
    CallOf("perplexity", w.pplx,
           IF w.conf = NoConf THEN 0 ELSE w.conf, w.shape)

callGemini(w) == CallOf("gemini", w.gem, GeminiConfidence, w.shape)

callChatGpt(w) == CallOf("chatgpt", w.gpt, ChatGptConfidence, w.shape)

\* a chain that would ask every configured provider
NeedsNextAlways(aiResult) == TRUE

\* `if (!aiResult)`: the next provider is tried only when no result object
\* has been obtained so far
NeedsNext(aiResult) == ~aiResult.some

\* the try/catch chain of aggregateContent: the result object kept and the
\* providers called
Cascade(w) ==
    LET c1 == callPerplexity(w)
        r1 == IF c1.threw THEN NoResult ELSE c1.result
        l1 == IF c1.called THEN <<"perplexity">> ELSE <<>>
        c2 == callGemini(w)
        r2 == IF NeedsNext(r1)
              THEN (IF c2.threw THEN NoResult ELSE c2.result) ELSE r1
        l2 == IF NeedsNext(r1) /\ c2.called THEN Append(l1, "gemini") ELSE l1
        c3 == callChatGpt(w)
        r3 == IF NeedsNext(r2)
              THEN (IF c3.threw THEN NoResult ELSE c3.result) ELSE r2
        l3 == IF NeedsNext(r2) /\ c3.called THEN Append(l2, "chatgpt") ELSE l2
    IN  [aiResult |-> r3, calls |-> l3]

\* uuid(): a value no other invocation g and no other item i has
Uuid(g, i) == <<"uuid", g, i>>

\* a mapping that would keep every item of the answer
NewsLimitNone(items) == items

NewsLimit(items) == Slice(items, MaxNewsItems)

\* the canonical item of one raw item
CanonicalItem(raw, i, aiResult, req, g, generatedAt) ==
    [id |-> OrElse(raw.id, Uuid(g, i)),
     title |-> OrElse(raw.title, OrElse(raw.summary, <<"Update for", req.section>>)),
     summary |-> OrElse(raw.summary, OrElse(raw.content,
                    <<"Automated insight", req.section, req.timePeriod>>)),
     sourceUrl |-> raw.url,
     verificationScore |->
        RoundPercent(IF aiResult.some THEN aiResult.confidence
                     ELSE NullItemConfidence),
     publishedAt |-> OrElse(raw.publishedAt, <<"at", generatedAt>>)]

CanonicalItems(aiResult, req, g, generatedAt) ==
    LET raws == NewsLimit(IF aiResult.some THEN aiResult.items ELSE <<>>)
    IN  [i \in 1..Len(raws) |->
            CanonicalItem(raws[i], i, aiResult, req, g, generatedAt)]

buildPlaceholderItems(section, timePeriod, g, generatedAt) ==
    [i \in 1..PlaceholderCount |->
        [id |-> Uuid(g, i),
         title |-> <<"insight", ToUpperCase(section), i, timePeriod>>,
         summary |-> <<"Placeholder content", section, timePeriod>>,
         sourceUrl |-> Nil,
         verificationScore |-> PlaceholderScore,
         publishedAt |-> <<"at", generatedAt>>]]

IsPlaceholderItem(it) == it.summary[1] = "Placeholder content"

EnrichedItems(aiResult, req, g, generatedAt) ==
    LET items == CanonicalItems(aiResult, req, g, generatedAt)
    IN  IF Len(items) > 0 THEN items
        ELSE buildPlaceholderItems(req.section, req.timePeriod, g, generatedAt)

RecordScore(aiResult) ==
    RoundPercent(IF aiResult.some THEN aiResult.confidence
                 ELSE NullRecordConfidence)

UnavailableSummary == <<"Placeholder content generated because AI providers were unavailable.">>

VerificationSummary(aiResult) ==
    IF aiResult.some /\ aiResult.provider # ""
    THEN <<"Content verified via", aiResult.provider,
           RoundPercent(aiResult.confidence)>>
    ELSE UnavailableSummary

-----------------------------------------------------------------------------
(* The requests and the world one invocation runs in *)

World(secretsOk, pplx, gem, gpt, conf, shape) ==
    [secretsOk |-> secretsOk, pplx |-> pplx, gem |-> gem, gpt |-> gpt,
     conf |-> conf, shape |-> shape]

Fields(section, timePeriod) == [section |-> section, timePeriod |-> timePeriod]

NoFields == Fields(Undefined, Undefined)

\* an HTTP event (requestContext present) or a direct invocation payload
Event(target, kind, bodyState, body, qs, world, writeOk) ==
    [target |-> target, kind |-> kind, bodyState |-> bodyState, body |-> body,
     qs |-> qs, world |-> world, writeOk |-> writeOk]

NoEvent ==
    Event("none", "none", "none", NoFields, NoFields,
          World(TRUE, Outcome("absent", 0), Outcome("absent", 0),
                Outcome("absent", 0), NoConf, "bare"), TRUE)

\* parseRequest of fetchNews: JSON.parse of a malformed body throws
parseRequest(e) ==
    IF e.kind = "http"
    THEN IF e.bodyState = "malformed"
         THEN [threw |-> TRUE, section |-> Undefined, timePeriod |-> Undefined]
         ELSE LET body == IF e.bodyState = "json" THEN e.body ELSE NoFields
              IN  [threw |-> FALSE,
                   section |-> OrElseStr(body.section,
                                   OrElseStr(e.qs.section, "ai")),
                   timePeriod |-> OrElseStr(body.timePeriod,
                                   OrElseStr(e.qs.timePeriod, "daily"))]
    ELSE [threw |-> FALSE,
          section |-> OrElseStr(e.body.section, "ai"),
          timePeriod |-> OrElseStr(e.body.timePeriod, "daily")]

\* normalizeRequest of fetchPatents
normalizeRequest(e) ==
    IF e.kind = "http"
    THEN IF e.bodyState = "malformed"
         THEN [threw |-> TRUE, section |-> Undefined, timePeriod |-> Undefined]
         ELSE LET body == IF e.bodyState = "json" THEN e.body ELSE NoFields
              IN  [threw |-> FALSE,
                   section |-> OrElseStr(body.section,
                                   OrElseStr(e.qs.section, "ai")),
                   timePeriod |-> OrElseStr(body.timePeriod,
                                   OrElseStr(e.qs.timePeriod, "monthly"))]
    ELSE [threw |-> FALSE,
          section |-> OrElseStr(e.body.section, "ai"),
          timePeriod |-> OrElseStr(e.body.timePeriod, "monthly")]

-----------------------------------------------------------------------------
(* The ContentCache table *)

CacheKey(section, timePeriod) == <<section, timePeriod>>

NoRecord ==
    [newsArray |-> Nil, verificationScore |-> Missing,
     patentsArray |-> Nil, patentImpactAverage |-> Missing,
     verifiedAt |-> Missing, expiresAt |-> Missing]

ReadRecord(tbl, key) == IF key \in DOMAIN tbl THEN tbl[key] ELSE NoRecord

Put(tbl, key, rec) ==
    [k \in DOMAIN tbl \cup {key} |-> IF k = key THEN rec ELSE tbl[k]]

\* a write that would append to the stored list instead of replacing it
NewsUpdateMerging(old, items, score, now) ==
    [old EXCEPT !.newsArray = old.newsArray \o items, !.verifiedAt = now,
                !.expiresAt = now + TtlSeconds, !.verificationScore = score]

\* a write that would put a whole new item under the key
NewsUpdateWholeItem(old, items, score, now) ==
    [NoRecord EXCEPT !.newsArray = items, !.verifiedAt = now,
                     !.expiresAt = now + TtlSeconds,
                     !.verificationScore = score]

\* UpdateCommand of aggregateContent:
\* SET newsArray, verifiedAt, expiresAt, verificationScore
NewsUpdate(old, items, score, now) ==
    [old EXCEPT !.newsArray = items, !.verifiedAt = now,
                !.expiresAt = now + TtlSeconds, !.verificationScore = score]

\* a write that would set the expiry only on a record that has none
PatentUpdateKeepingTtl(old, patents, now) ==
    [old EXCEPT !.patentsArray = patents, !.verifiedAt = now,
                !.expiresAt = IF old.expiresAt = Missing
                              THEN now + TtlSeconds ELSE old.expiresAt,
                !.patentImpactAverage =
                    RoundDiv(SumScores(patents, "impactScore"),
                             Max(1, Len(patents)))]

\* UpdateCommand of upsertCache:
\* SET patentsArray, verifiedAt, expiresAt, patentImpactAverage
PatentUpdate(old, patents, now) ==
    [old EXCEPT !.patentsArray = patents, !.verifiedAt = now,
                !.expiresAt = now + TtlSeconds,
                !.patentImpactAverage =
                    RoundDiv(SumScores(patents, "impactScore"),
                             Max(1, Len(patents)))]

\* one successful UpdateCommand, as the history of its key records it
WriteOf(slot, items, now) == [slot |-> slot, items |-> items, at |-> now]

Logged(log, key, entry) ==
    [k \in DOMAIN log \cup {key} |->
        IF k = key
        THEN Append(IF key \in DOMAIN log THEN log[key] ELSE <<>>, entry)
        ELSE log[k]]

-----------------------------------------------------------------------------
(* fetchNews: aggregateContent and the two entry points *)

NoResp ==
    [target |-> "none", kind |-> "none", status |-> "none",
     section |-> Undefined, timePeriod |-> Undefined, items |-> <<>>,
     summary |-> Nil, generatedAt |-> Missing, message |-> ""]

\* a failure swallowed as an empty success
FailedResponseAsSuccess(target, kind, message) ==
    [NoResp EXCEPT !.target = target, !.kind = kind,
        !.status = IF kind = "http" THEN "200" ELSE "returned"]

\* the catch block of the HTTP entry point answers 500 with a fixed message;
\* the direct entry point lets the exception leave the handler
FailedResponse(target, kind, message) ==
    [NoResp EXCEPT !.target = target, !.kind = kind,
        !.status = IF kind = "http" THEN "500" ELSE "threw",
        !.message = IF kind = "http" THEN message ELSE ""]

\* aggregateContent: throws when the secret or the cache write fails,
\* otherwise writes the record and returns the response object
aggregateContent(req, w, writeOk, g, now) ==
    LET cas == IF w.secretsOk THEN Cascade(w)
               ELSE [aiResult |-> NoResult, calls |-> <<>>]
        enriched == EnrichedItems(cas.aiResult, req, g, now)
    IN  [threw |-> ~w.secretsOk \/ ~writeOk,
         wrote |-> w.secretsOk /\ writeOk,
         calls |-> cas.calls,
         aiResult |-> cas.aiResult,
         items |-> enriched,
         score |-> RecordScore(cas.aiResult),
         summary |-> VerificationSummary(cas.aiResult)]

NewsFailureMessage == "Failed to aggregate news content"

\* handler of fetchNews, both entry points: handleApiGateway wraps
\* parseRequest and aggregateContent in one try/catch, the direct path has none
InvokeNews(e, g) ==
    /\ LET req == parseRequest(e)
           out == aggregateContent(req, e.world, e.writeOk, g, clock)
           key == CacheKey(req.section, req.timePeriod)
           failed == req.threw \/ out.threw
       IN  /\ cache' = IF ~req.threw /\ out.wrote
                       THEN Put(cache, key,
                                NewsUpdate(ReadRecord(cache, key), out.items,
                                           out.score, clock))
                       ELSE cache
           /\ writes' = IF ~req.threw /\ out.wrote
                        THEN Logged(writes, key, WriteOf("news", out.items, clock))
                        ELSE writes
           /\ calls' = IF req.threw THEN <<>> ELSE out.calls
           /\ attempts' = IF ~req.threw /\ e.world.secretsOk THEN 1 ELSE 0
           /\ resp' =
                IF failed
                THEN FailedResponse("news", e.kind, NewsFailureMessage)
                ELSE [NoResp EXCEPT !.target = "news", !.kind = e.kind,
                         !.status = IF e.kind = "http" THEN "200" ELSE "returned",
                         !.section = req.section,
                         !.timePeriod = req.timePeriod,
                         !.items = out.items, !.summary = out.summary,
                         !.generatedAt = clock]
    /\ handled' = e

-----------------------------------------------------------------------------
(* fetchPatents *)

PatentFromRaw(raw, i, req, g) ==
    [id |-> OrElse(raw.id, Uuid(g, i)),
     title |-> OrElse(raw.title, <<"Patent insight for", req.section>>),
     abstract |-> OrElse(raw.summary, OrElse(raw.content,
                    <<"Placeholder summary", req.section, req.timePeriod>>)),
     filingDate |-> raw.publishedAt,
     inventors |-> Nil,
     impactScore |-> RoundPercent(IF raw.confidence # NoConf
                                  THEN raw.confidence
                                  ELSE PatentDefaultConfidence),
     sourceUrl |-> raw.url]

\* one item per non-empty line of the ChatGPT answer, at most five
PatentFromLine(i, g) ==
    [id |-> Uuid(g, i),
     title |-> <<"line head", i>>,
     abstract |-> <<"line", i>>,
     filingDate |-> Nil,
     inventors |-> Nil,
     impactScore |-> ChatGptImpactScore,
     sourceUrl |-> Nil]

PatentPlaceholders(req, g) ==
    [i \in 1..PlaceholderCount |->
        [id |-> Uuid(g, i),
         title |-> <<"patent highlight", ToUpperCase(req.section), i>>,
         abstract |-> <<"Placeholder patent highlight", req.section,
                        req.timePeriod>>,
         filingDate |-> Nil,
         inventors |-> Nil,
         impactScore |-> PatentPlaceholderScore,
         sourceUrl |-> Nil]]

\* generatePatentSummaries: the Perplexity call is inside a try/catch, the
\* ChatGPT call is not
generatePatentSummaries(req, w, g) ==
    LET pCalled == w.pplx.st # "absent"
        fromP == IF w.pplx.st = "ok"
                 THEN LET raws == RawItems("perplexity", w.pplx.n, w.shape)
                      IN  [i \in 1..Len(raws) |-> PatentFromRaw(raws[i], i, req, g)]
                 ELSE <<>>
        cCalled == Len(fromP) = 0 /\ w.gpt.st # "absent"
        cThrew == cCalled /\ w.gpt.st = "fail"
        fromC == IF cCalled /\ w.gpt.st = "ok"
                 THEN [i \in 1..Min(w.gpt.n, MaxPatentLines) |-> PatentFromLine(i, g)]
                 ELSE <<>>
        items == IF Len(fromP) > 0 THEN fromP ELSE fromC
    IN  [threw |-> cThrew,
         calls |-> (IF pCalled THEN <<"perplexity">> ELSE <<>>)
                    \o (IF cCalled THEN <<"chatgpt">> ELSE <<>>),
         items |-> IF Len(items) = 0 THEN PatentPlaceholders(req, g)
                   ELSE Slice(items, MaxPatentItems)]

PatentFailureMessage == "Unable to aggregate patent insights"

\* handler of fetchPatents, both entry points: handleApi wraps everything in
\* one try/catch, the direct path has none
InvokePatents(e, g) ==
    /\ LET req == normalizeRequest(e)
           out == generatePatentSummaries(req, e.world, g)
           key == CacheKey(req.section, req.timePeriod)
           generated == ~req.threw /\ e.world.secretsOk /\ ~out.threw
           failed == ~generated \/ ~e.writeOk
       IN  /\ cache' = IF ~failed
                       THEN Put(cache, key,
                                PatentUpdate(ReadRecord(cache, key), out.items,
                                             clock))
                       ELSE cache
           /\ writes' = IF ~failed
                        THEN Logged(writes, key, WriteOf("patents", out.items, clock))
                        ELSE writes
           /\ calls' = IF ~req.threw /\ e.world.secretsOk THEN out.calls ELSE <<>>
           /\ attempts' = IF generated THEN 1 ELSE 0
           /\ resp' =
                IF failed
                THEN FailedResponse("patents", e.kind, PatentFailureMessage)
                ELSE [NoResp EXCEPT !.target = "patents", !.kind = e.kind,
                         !.status = IF e.kind = "http" THEN "200" ELSE "returned",
                         !.section = req.section,
                         !.timePeriod = req.timePeriod,
                         !.items = out.items,
                         !.generatedAt = clock]
    /\ handled' = e

-----------------------------------------------------------------------------
(* The events of the model *)

BodySections == {Undefined, "ai", "xx"}
BodyPeriods == {Undefined, "weekly"}
QuerySections == {Undefined, "ml"}
QueryPeriods == {Undefined, "yearly"}

HttpShapes ==
    {[kind |-> "http", bodyState |-> "json", body |-> Fields(s, p),
      qs |-> Fields(qsec, qper)] :
        s \in BodySections, p \in BodyPeriods,
        qsec \in QuerySections, qper \in QueryPeriods}
    \cup {[kind |-> "http", bodyState |-> "none", body |-> NoFields,
           qs |-> Fields(qsec, qper)] :
        qsec \in QuerySections, qper \in QueryPeriods}
    \cup {[kind |-> "http", bodyState |-> "malformed", body |-> NoFields,
           qs |-> NoFields]}

InvokeShapes ==
    {[kind |-> "invoke", bodyState |-> "none", body |-> Fields(s, p),
      qs |-> NoFields] : s \in BodySections, p \in BodyPeriods}

RequestShapes == HttpShapes \cup InvokeShapes

BaseShapes ==
    {[kind |-> "http", bodyState |-> "json", body |-> Fields("ai", Undefined),
      qs |-> NoFields],
     [kind |-> "invoke", bodyState |-> "none", body |-> Fields("iot", "weekly"),
      qs |-> NoFields]}

NoKeys ==
    World(TRUE, Outcome("absent", 0), Outcome("absent", 0),
          Outcome("absent", 0), NoConf, "bare")

SecretsDown == [NoKeys EXCEPT !.secretsOk = FALSE]

\* every combination of provider outcomes; the confidence matters only when
\* Perplexity answers
AllWorlds ==
    {World(TRUE, p, g, c, conf, shape) :
        p \in Outcomes, g \in Outcomes, c \in Outcomes,
        conf \in ConfValues, shape \in Shapes}

Worlds == {w \in AllWorlds : w.pplx.st = "ok" \/ w.conf = NoConf} \cup {SecretsDown}

BaseWorlds ==
    {NoKeys, SecretsDown,
     World(TRUE, Outcome("ok", 2), Outcome("ok", MaxProviderItems),
           Outcome("absent", 0), 900, "full")}

Targets == {"news", "patents"}

EventOf(target, shape, world, writeOk) ==
    Event(target, shape.kind, shape.bodyState, shape.body, shape.qs, world,
          writeOk)

\* the events of one invocation: every request shape in a few worlds, and a
\* few request shapes in every world
OnceEvents ==
    {EventOf(t, sh, w, ok) :
        t \in Targets, sh \in RequestShapes, w \in BaseWorlds, ok \in BOOLEAN}
    \cup {EventOf(t, sh, w, TRUE) :
        t \in Targets, sh \in BaseShapes, w \in Worlds}

SeqWorlds ==
    {NoKeys,
     World(TRUE, Outcome("ok", 2), Outcome("absent", 0), Outcome("absent", 0),
           900, "full"),
     World(TRUE, Outcome("fail", 0), Outcome("ok", 1), Outcome("ok", 2),
           NoConf, "summaryOnly")}

\* the events of a sequence of invocations
SeqEvents ==
    {EventOf(t, sh, w, ok) :
        t \in Targets, sh \in BaseShapes, w \in SeqWorlds, ok \in BOOLEAN}

-----------------------------------------------------------------------------
(* Specifications *)

\* a request reaches one of the two Lambdas
Arrive ==
    /\ pending = NoEvent
    /\ gen < MaxRequests
    /\ \E e \in SeqEvents, d \in 1..MaxTick :
        /\ pending' = e
        /\ clock' = clock + d
    /\ gen' = gen + 1
    /\ UNCHANGED <<lambdaVars, sweepVars, notifyVars, wsVars, running>>

\* an invocation of fetchNews through API Gateway or directly
HandleNews ==
    /\ pending.target = "news"
    /\ InvokeNews(pending, <<"req", gen>>)
    /\ pending' = NoEvent
    /\ UNCHANGED <<gen, clock, sweepVars, notifyVars, wsVars, running>>

\* an invocation of fetchPatents through API Gateway or directly
HandlePatents ==
    /\ pending.target = "patents"
    /\ InvokePatents(pending, <<"req", gen>>)
    /\ pending' = NoEvent
    /\ UNCHANGED <<gen, clock, sweepVars, notifyVars, wsVars, running>>

EmptyTable == [k \in {} |-> NoRecord]

NoExec == [status |-> "none", sections |-> <<>>, timePeriods |-> <<>>]

NoTrigger ==
    [pc |-> "idle", result |-> "none", sections |-> <<>>, timePeriods |-> <<>>,
     given |-> FALSE, connections |-> {}]

NoBroadcast == [attempted |-> {}, failed |-> {}, enumerated |-> FALSE]

\* the two origins of a news refresh: the sweep's InvokeFetchNews and an
\* on-demand HTTP request
Refreshers == {"sweep", "onDemand"}

NotStarted == [pc |-> "idle", e |-> NoEvent, out |-> <<>>, at |-> Missing]

NoRunning == [i \in Refreshers |-> NotStarted]

\* the state before any request, trigger or connection
Idle ==
    /\ attempts = 0
    /\ resp = NoResp
    /\ calls = <<>>
    /\ gen = 0
    /\ clock = 0
    /\ handled = NoEvent
    /\ writes = [k \in {} |-> <<>>]
    /\ exec = NoExec
    /\ pairSt = [p \in {} |-> "waiting"]
    /\ trig = NoTrigger
    /\ broadcast = NoBroadcast
    /\ inflight = {}
    /\ running = NoRunning

Quiet == cache = EmptyTable /\ Idle

Init ==
    /\ Quiet
    /\ pending = NoEvent
    /\ registry = EmptyTable
    /\ live = {}

Next == Arrive \/ HandleNews \/ HandlePatents

\* a sequence of news and patent invocations, one after the other
Spec == Init /\ [][Next]_vars

InitOnce ==
    /\ Quiet
    /\ pending \in OnceEvents
    /\ registry = EmptyTable
    /\ live = {}

NextOnce == HandleNews \/ HandlePatents

\* one invocation, over every request shape and every provider outcome
SpecOnce == InitOnce /\ [][NextOnce]_vars

\* the request each origin sends for the key ai#daily
RaceShape(i) ==
    IF i = "sweep"
    THEN [kind |-> "invoke", bodyState |-> "none",
          body |-> Fields("ai", "daily"), qs |-> NoFields]
    ELSE [kind |-> "http", bodyState |-> "json",
          body |-> Fields("ai", Undefined), qs |-> NoFields]

\* a record that would keep the list of the newer generation
NewsUpdateKeepingNewer(old, items, score, now) ==
    IF old.verifiedAt # Missing /\ old.verifiedAt > now
    THEN old
    ELSE [old EXCEPT !.newsArray = items, !.verifiedAt = now,
                     !.expiresAt = now + TtlSeconds,
                     !.verificationScore = score]

\* the record after the UpdateCommand of aggregateContent: it carries no
\* ConditionExpression, so it is applied to whatever the record is then
ApplyNewsUpdate(old, items, score, now) == NewsUpdate(old, items, score, now)

\* aggregateContent of one of two concurrent invocations, up to the point
\* where its UpdateCommand is built and sent
RaceGenerate(i) ==
    /\ running[i].pc = "idle"
    /\ \E w \in SeqWorlds, writeOk \in BOOLEAN, d \in 1..MaxTick :
        LET e == EventOf("news", RaceShape(i), w, writeOk)
            req == parseRequest(e)
            now == clock + d
            out == aggregateContent(req, w, writeOk, <<"req", gen + 1>>, now)
        IN  /\ clock' = now
            /\ running' = [running EXCEPT
                    ![i] = [pc |-> "sending", e |-> e,
                            out |-> [out EXCEPT !.calls = <<>>] @@
                                    [section |-> req.section,
                                     timePeriod |-> req.timePeriod],
                            at |-> now]]
            /\ calls' = out.calls
    /\ gen' = gen + 1
    /\ UNCHANGED <<cache, resp, handled, writes, attempts, pending,
                   sweepVars, notifyVars, wsVars>>

\* the UpdateCommand of that invocation reaches the table, and the invocation
\* answers
RaceWrite(i) ==
    /\ running[i].pc = "sending"
    /\ LET r == running[i]
           key == CacheKey(r.out.section, r.out.timePeriod)
       IN  /\ cache' = IF r.out.wrote
                       THEN Put(cache, key,
                                ApplyNewsUpdate(ReadRecord(cache, key),
                                                r.out.items, r.out.score, r.at))
                       ELSE cache
           /\ writes' = IF r.out.wrote
                        THEN Logged(writes, key, WriteOf("news", r.out.items, r.at))
                        ELSE writes
           /\ resp' =
                IF r.out.threw
                THEN FailedResponse("news", r.e.kind, NewsFailureMessage)
                ELSE [NoResp EXCEPT !.target = "news", !.kind = r.e.kind,
                         !.status = IF r.e.kind = "http" THEN "200" ELSE "returned",
                         !.section = r.out.section,
                         !.timePeriod = r.out.timePeriod,
                         !.items = r.out.items, !.summary = r.out.summary,
                         !.generatedAt = r.at]
           /\ handled' = r.e
           /\ running' = [running EXCEPT
                            ![i].pc = IF r.out.wrote THEN "done" ELSE "failed"]
    /\ attempts' = IF running[i].e.world.secretsOk THEN 1 ELSE 0
    /\ UNCHANGED <<calls, reqVars, sweepVars, notifyVars, wsVars>>

NextRace ==
    \/ \E i \in Refreshers : RaceGenerate(i)
    \/ \E i \in Refreshers : RaceWrite(i)

\* two news refreshes of the key ai#daily, in every interleaving
SpecRace == Init /\ [][NextRace]_vars

-----------------------------------------------------------------------------
(* websocketManager: the WebSocketSessions table *)

ConnIds == {<<"conn", i>> : i \in 1..MaxConnections}

SessionItem(sessionId, lastSeen) == [sessionId |-> sessionId, lastSeen |-> lastSeen]

\* handleConnect: PutCommand of a whole item; the sessionId is the caller's
\* or a random one
WsConnect(c) ==
    /\ c \notin live
    /\ live' = live \cup {c}
    /\ \E sid \in {"supplied", "generated"} :
        registry' = Put(registry, c, SessionItem(sid, FALSE))
    /\ UNCHANGED <<lambdaVars, reqVars, sweepVars, notifyVars, inflight, running>>

\* handleDisconnect: DeleteCommand
WsDisconnect(c) ==
    /\ c \in live
    /\ live' = live \ {c}
    /\ registry' = [k \in DOMAIN registry \ {c} |-> registry[k]]
    /\ UNCHANGED <<lambdaVars, reqVars, sweepVars, notifyVars, inflight, running>>

\* an open connection sends a frame; its MESSAGE invocation runs later
WsSend(c) ==
    /\ c \in live
    /\ c \notin inflight
    /\ inflight' = inflight \cup {c}
    /\ UNCHANGED <<lambdaVars, reqVars, sweepVars, notifyVars, registry, live, running>>

\* handleMessage: UpdateCommand SET lastSeen, ttl, which creates the item when
\* the key is absent
WsMessage(c) ==
    /\ c \in inflight
    /\ inflight' = inflight \ {c}
    /\ registry' =
        Put(registry, c,
            IF c \in DOMAIN registry
            THEN [registry[c] EXCEPT !.lastSeen = TRUE]
            ELSE SessionItem(Undefined, TRUE))
    /\ UNCHANGED <<lambdaVars, reqVars, sweepVars, notifyVars, live, running>>

-----------------------------------------------------------------------------
(* dailyRefresh: the refresh trigger *)

\* environment of DailyRefreshFunction as the stack sets it
StateMachineConfigured == TRUE
WebsocketEndpointConfigured == TRUE
WebsocketTableConfigured == TRUE

DefaultSections == <<"ml", "ai", "iot", "quantum">>
DefaultPeriods == <<"daily", "weekly", "monthly", "yearly">>

\* the sections and periods PrepareRefreshInput puts in $.config
ConfigSections == <<"ml", "ai", "iot", "quantum">>
ConfigPeriods == <<"daily", "weekly", "monthly", "yearly">>

\* the part of the cross product the model sweeps
SweepPeriods == SubSeq(ConfigPeriods, 1, 2)

\* the k-th iteration, sections outermost
PairAt(k) ==
    <<ConfigSections[((k - 1) \div Len(SweepPeriods)) + 1],
      SweepPeriods[((k - 1) % Len(SweepPeriods)) + 1]>>

\* the iterations of ForEachSection x ForEachTimePeriod
SweepPairs ==
    {PairAt(k) :
        k \in 1..Min(MaxSweepPairs, Len(ConfigSections) * Len(SweepPeriods))}

\* an optional array of the event detail
Omitted == [given |-> FALSE, list |-> <<>>]
Given(list) == [given |-> TRUE, list |-> list]

Detail(sections, timePeriods, connGiven, connections) ==
    [sections |-> sections, timePeriods |-> timePeriods,
     connGiven |-> connGiven, connections |-> connections]

\* the scheduled event (no detail) and on-demand events with overrides
Details ==
    {Detail(Omitted, Omitted, FALSE, {}),
     Detail(Given(<<"ai">>), Omitted, FALSE, {}),
     Detail(Given(<<"ai">>), Given(<<"daily">>), TRUE, {})}
    \cup {Detail(Omitted, Omitted, TRUE, {c}) : c \in ConnIds}

\* listActiveConnections: one Scan of the table
listActiveConnections(tbl) ==
    IF WebsocketTableConfigured THEN DOMAIN tbl ELSE {}

\* recipients of a handler that pushes only to a listed connections array
RecipientsWhenListed(t, tbl) == IF t.given THEN t.connections ELSE {}

\* the recipients of the broadcast: detail.connections when it is an array,
\* the scanned table otherwise
Recipients(t, tbl) ==
    IF t.given THEN t.connections ELSE listActiveConnections(tbl)

\* handler up to StartExecutionCommand: the execution is started and runs on
\* its own
TriggerStart ==
    /\ trig.pc \in {"idle", "done"}
    /\ \E d \in Details, startOk \in BOOLEAN :
        LET sections == IF d.sections.given THEN d.sections.list
                        ELSE DefaultSections
            timePeriods == IF d.timePeriods.given THEN d.timePeriods.list
                           ELSE DefaultPeriods
        IN  IF ~StateMachineConfigured
            THEN /\ trig' = [NoTrigger EXCEPT !.pc = "done", !.result = "500"]
                 /\ UNCHANGED sweepVars
            ELSE IF ~startOk
            THEN /\ trig' = [NoTrigger EXCEPT !.pc = "done", !.result = "threw"]
                 /\ UNCHANGED sweepVars
            ELSE /\ trig' = [pc |-> "started", result |-> "none",
                             sections |-> sections, timePeriods |-> timePeriods,
                             given |-> d.connGiven, connections |-> d.connections]
                 /\ exec' = [status |-> "RUNNING", sections |-> sections,
                             timePeriods |-> timePeriods]
                 /\ pairSt' = [p \in SweepPairs |-> "waiting"]
    /\ broadcast' = NoBroadcast
    /\ UNCHANGED <<lambdaVars, reqVars, wsVars, running>>

\* a handler that would await the pushes with Promise.all
AfterPushesAll(failed) == IF failed = {} THEN "202" ELSE "threw"

\* Promise.allSettled never rejects: the handler goes on to its return
\* statement whatever the pushes did
AfterPushes(failed) == "202"

\* handler after StartExecutionCommand: the recipients are chosen, every push
\* is attempted (Promise.allSettled) and the handler returns 202
TriggerNotify ==
    /\ trig.pc = "started"
    /\ \E scanOk \in BOOLEAN :
        IF ~trig.given /\ WebsocketTableConfigured /\ ~scanOk
        THEN /\ trig' = [trig EXCEPT !.pc = "done", !.result = "threw"]
             /\ broadcast' = NoBroadcast
        ELSE LET to == Recipients(trig, registry)
                 pushing == WebsocketEndpointConfigured /\ to # {}
             IN  \E failed \in SUBSET to :
                    /\ trig' = [trig EXCEPT !.pc = "done",
                            !.result = AfterPushes(IF pushing THEN failed ELSE {})]
                    /\ broadcast' =
                        IF pushing
                        THEN [attempted |-> to, failed |-> failed,
                              enumerated |-> ~trig.given]
                        ELSE [NoBroadcast EXCEPT !.enumerated = ~trig.given]
    /\ UNCHANGED <<lambdaVars, reqVars, sweepVars, wsVars, running>>

-----------------------------------------------------------------------------
(* RefreshStateMachine: ForEachSection / ForEachTimePeriod Map states around
   InvokeFetchNews -> InvokeFetchPatents, with no Catch and no Retry *)

SweepWorlds ==
    {NoKeys,
     World(TRUE, Outcome("absent", 0), Outcome("absent", 0), Outcome("fail", 0),
           NoConf, "bare")}

RefreshPayload(p) ==
    [kind |-> "invoke", bodyState |-> "none", body |-> Fields(p[1], p[2]),
     qs |-> NoFields]

\* a failed task fails its Map state and with it the execution; iterations
\* that have not finished start no further task
AfterTask(p, ok, next) ==
    IF ok
    THEN LET st == [pairSt EXCEPT ![p] = next]
         IN  /\ pairSt' = st
             /\ exec' = IF \A q \in SweepPairs : st[q] = "done"
                        THEN [exec EXCEPT !.status = "SUCCEEDED"]
                        ELSE exec
    ELSE /\ pairSt' = [pairSt EXCEPT ![p] = "failed"]
         /\ exec' = [exec EXCEPT !.status = "FAILED"]

\* InvokeFetchNews of one iteration
RunNews(p) ==
    /\ exec.status = "RUNNING"
    /\ pairSt[p] = "waiting"
    /\ \E w \in SweepWorlds, writeOk \in BOOLEAN :
        /\ InvokeNews(EventOf("news", RefreshPayload(p), w, writeOk),
                      <<"sweep", p[1], p[2], "news">>)
        /\ AfterTask(p, resp'.status = "returned", "newsDone")
    /\ UNCHANGED <<reqVars, notifyVars, wsVars, running>>

\* two tasks that would run as independent branches of the iteration
PatentsMayStartAnyTime(p) == pairSt[p] \in {"waiting", "newsDone"}

\* fetchNewsTask.next(fetchPatentsTask): the second state of the iteration
\* is entered when the first has returned
PatentsMayStart(p) == pairSt[p] = "newsDone"

\* InvokeFetchPatents of one iteration, after its InvokeFetchNews
RunPatents(p) ==
    /\ exec.status = "RUNNING"
    /\ PatentsMayStart(p)
    /\ \E w \in SweepWorlds, writeOk \in BOOLEAN :
        /\ InvokePatents(EventOf("patents", RefreshPayload(p), w, writeOk),
                         <<"sweep", p[1], p[2], "patents">>)
        /\ AfterTask(p, resp'.status = "returned", "done")
    /\ UNCHANGED <<reqVars, notifyVars, wsVars, running>>

NextSweep ==
    \/ (exec.status = "none" /\ TriggerStart)
    \/ TriggerNotify
    \/ \E p \in SweepPairs : RunNews(p)
    \/ \E p \in SweepPairs : RunPatents(p)

\* the sessions registered when the trigger fires
InitSweep ==
    /\ Quiet
    /\ pending = NoEvent
    /\ registry = [c \in ConnIds |-> SessionItem("supplied", FALSE)]
    /\ live = ConnIds

\* one refresh trigger and the sweep it starts
SpecSweep == InitSweep /\ [][NextSweep]_vars

NextNotify ==
    \/ \E c \in ConnIds : WsConnect(c)
    \/ \E c \in ConnIds : WsDisconnect(c)
    \/ \E c \in ConnIds : WsSend(c)
    \/ \E c \in ConnIds : WsMessage(c)
    \/ TriggerStart
    \/ TriggerNotify

\* the WebSocket sessions and the broadcasts of the refresh trigger
SpecNotify == Init /\ [][NextNotify]_vars

-----------------------------------------------------------------------------
(* relatedContent: the deep-dive handler.  Its strings are sequences of
   characters, so that toLowerCase and includes are computed. *)

ToLowerChar(c) ==
    CASE c = "A" -> "a"
      [] c = "B" -> "b"
      [] OTHER -> c

\* String.prototype.toLowerCase
toLowerCase(s) == [i \in 1..Len(s) |-> ToLowerChar(s[i])]

\* String.prototype.includes
includes(s, t) ==
    \E k \in 0..(Len(s) - Len(t)) : SubSeq(s, k + 1, k + Len(t)) = t

\* a value that is not an array, and an array
NotArray == [isArray |-> FALSE, list |-> <<>>]
ArrayOf(list) == [isArray |-> TRUE, list |-> list]

\* an item as the table may hold it; verificationScore in tenths of a point
StoredItem(id, title, summary, score, related) ==
    [id |-> id, title |-> title, summary |-> summary, content |-> Nil,
     sourceUrl |-> Nil, source |-> Nil, url |-> Nil,
     verificationScore |-> score, related |-> related]

\* an optional number
NoNumber == [given |-> FALSE, n |-> 0]
Number(n) == [given |-> TRUE, n |-> n]

\* the path parameters, the depth query parameter and the outcome of the read
RelatedEvent(section, period, itemId, depth, readOk) ==
    [target |-> "related", section |-> section, period |-> period,
     itemId |-> itemId, depth |-> depth, readOk |-> readOk]

\* event.queryStringParameters?.depth: absent, the empty string, or a decimal
\* integer
NoQuery == [kind |-> "absent", n |-> 0]
EmptyQuery == [kind |-> "empty", n |-> 0]
IntQuery(n) == [kind |-> "int", n |-> n]

UnknownItemId == <<"u", "n", "k", "n", "o", "w", "n">>

\* parseRequest of relatedContent: an empty depth string is falsy
parseRelatedRequest(e) ==
    [section |-> OrElseStr(e.section, "ai"),
     period |-> OrElseStr(e.period, "daily"),
     itemId |-> OrElse(e.itemId, UnknownItemId),
     depth |-> IF e.depth.kind = "int" THEN Number(e.depth.n) ELSE NoNumber]

\* buildPlaceholder: the requested id on top of two generated children
buildPlaceholder(section, period, itemId, g) ==
    StoredItem(itemId, <<"Deep dive for", ToUpperCase(section), period>>,
               <<"Configure aggregation providers">>, 10 * PlaceholderRootScore,
               ArrayOf([index \in 1..PlaceholderChildren |->
                   StoredItem(Uuid(g, <<"placeholder", index>>),
                              <<"contextual insight", ToUpperCase(section), index>>,
                              <<"Placeholder context">>,
                              10 * PlaceholderChildScore, NotArray)]))

\* fetchCached: the record of the key, or null
fetchCached(tbl, section, period) ==
    IF RelatedTableConfigured /\ CacheKey(section, period) \in DOMAIN tbl
    THEN [found |-> TRUE, item |-> tbl[CacheKey(section, period)]]
    ELSE [found |-> FALSE, item |-> NoRecord]

\* expandRelated: every level keeps at most three children and expands them
\* with depth - 1; a level shows its children only when its depth exceeds 1
RECURSIVE expandRelated(_, _, _, _)
expandRelated(item, depth, g, path) ==
    LET kids == IF item.related.isArray
                THEN Slice(item.related.list, MaxRelated)
                ELSE <<>>
        relatedItems ==
            [i \in 1..Len(kids) |->
                expandRelated(kids[i], depth - 1, g, Append(path, i))]
    IN  [id |-> OrElse(item.id, Uuid(g, path)),
         title |-> OrElse(item.title, <<"Related technology development">>),
         summary |-> OrElse(item.summary, OrElse(item.content,
                        <<"AI generated related insight">>)),
         sourceUrl |-> OrElse(item.sourceUrl, OrElse(item.source, item.url)),
         verificationScore |->
            IF item.verificationScore # Missing
            THEN RoundTenths(item.verificationScore)
            ELSE DefaultRelatedScore,
         related |-> IF depth > 1 THEN ArrayOf(relatedItems) ELSE NotArray]

RECURSIVE SumSeq(_)
SumSeq(s) == IF s = <<>> THEN 0 ELSE s[1] + SumSeq(Tail(s))

\* the invocations of expandRelated that one call expandRelated(item, depth)
\* makes, itself included: the map over the first three children runs before
\* depth is looked at
RECURSIVE expandRelatedCalls(_, _)
expandRelatedCalls(item, depth) ==
    LET kids == IF item.related.isArray
                THEN Slice(item.related.list, MaxRelated)
                ELSE <<>>
    IN  1 + SumSeq([i \in 1..Len(kids) |->
                        expandRelatedCalls(kids[i], depth - 1)])

\* Array.prototype.find over a sequence of test results: the first index
\* whose test holds, 0 when none does
FirstTrue(flags) ==
    IF \E i \in 1..Len(flags) : flags[i]
    THEN CHOOSE i \in 1..Len(flags) :
            flags[i] /\ \A j \in 1..(i - 1) : ~flags[j]
    ELSE 0

IdMatches(item, itemId) == item.id = itemId

TitleMatches(item, itemId) ==
    /\ item.title # Nil
    /\ includes(toLowerCase(item.title), toLowerCase(itemId))

\* a lookup that would prefer the title match to the id match
FindTargetTitleFirst(candidates, itemId, fallback) ==
    LET byId == FirstTrue([i \in 1..Len(candidates) |->
                            IdMatches(candidates[i], itemId)])
        byTitle == FirstTrue([i \in 1..Len(candidates) |->
                            TitleMatches(candidates[i], itemId)])
    IN  IF byTitle # 0 THEN candidates[byTitle]
        ELSE IF byId # 0 THEN candidates[byId]
        ELSE fallback

\* the target: find by id ?? find by title ?? fallback
FindTarget(candidates, itemId, fallback) ==
    LET byId == FirstTrue([i \in 1..Len(candidates) |->
                            IdMatches(candidates[i], itemId)])
        byTitle == FirstTrue([i \in 1..Len(candidates) |->
                            TitleMatches(candidates[i], itemId)])
    IN  IF byId # 0 THEN candidates[byId]
        ELSE IF byTitle # 0 THEN candidates[byTitle]
        ELSE fallback

\* the requested depth with its default and no upper limit
EffectiveDepthUnclamped(depth) ==
    IF depth.given THEN depth.n ELSE DefaultDepth

\* Math.min(request.depth ?? 3, 5)
EffectiveDepth(depth) ==
    Min(IF depth.given THEN depth.n ELSE DefaultDepth, MaxDepth)

\* handler of relatedContent after a successful read
RelatedResponse(e, tbl, g) ==
    LET request == parseRelatedRequest(e)
        cached == fetchCached(tbl, request.section, request.period)
        candidates == IF cached.found THEN cached.item.newsArray ELSE <<>>
        fallback == buildPlaceholder(request.section, request.period,
                                     request.itemId, g)
        target == FindTarget(candidates, request.itemId, fallback)
    IN  [target |-> "related", status |-> "200",
         section |-> request.section, period |-> request.period,
         item |-> expandRelated(target, EffectiveDepth(request.depth), g, <<>>)]

\* handler of relatedContent: a failed GetCommand is not caught
InvokeRelated(e, g) ==
    /\ resp' = IF e.readOk THEN RelatedResponse(e, cache, g)
               ELSE [target |-> "related", status |-> "threw"]
    /\ handled' = e
    /\ UNCHANGED <<cache, calls, writes, attempts>>

HandleRelated ==
    /\ pending.target = "related"
    /\ InvokeRelated(pending, <<"related">>)
    /\ pending' = NoEvent
    /\ UNCHANGED <<gen, clock, sweepVars, notifyVars, wsVars, running>>

\* a chain of n items, each the only child of the one above
RECURSIVE Chain(_, _)
Chain(n, id) ==
    StoredItem(id, <<"l", "e", "v", "e", "l">>, <<"level", n>>, Missing,
               IF n <= 1 THEN NotArray ELSE ArrayOf(<<Chain(n - 1, Nil)>>))

\* an item with more children than a level keeps, the last with an empty array
Wide(id) ==
    StoredItem(id, <<"w", "i", "d", "e">>, <<"wide">>, 875,
               ArrayOf([i \in 1..(MaxRelated + 1) |->
                   StoredItem(Nil, Nil, Nil, 10 * i,
                              IF i = 1 THEN ArrayOf(<<>>) ELSE NotArray)]))

StoredIds == {<<"a", "b">>, <<"x", "1">>}
StoredTitles == {<<"x", "A", "B", "y">>, <<"z", "z">>, Nil}
AskedIds == {<<"a", "b">>, <<"A", "b">>, <<"q">>, Nil}

\* the lists fetchNews writes: items with no related field
FlatLists ==
    UNION {[1..n -> StoredIds \X StoredTitles] : n \in 0..MaxCandidates}

FlatItems(l) ==
    [i \in 1..Len(l) |->
        StoredItem(l[i][1], l[i][2], <<"summary", i>>, 10 * i + 5, NotArray)]

\* lists whose item carries a related tree
TreeLists ==
    {<<Chain(n, <<"a", "b">>)>> : n \in 1..MaxTreeDepth}
        \cup {<<Wide(<<"a", "b">>)>>}

NewsLists == {FlatItems(l) : l \in FlatLists} \cup TreeLists

StoredKey == CacheKey("ml", "weekly")

\* no record, a record that only fetchPatents has written, records with news
RelatedTables ==
    {EmptyTable, Put(EmptyTable, StoredKey, NoRecord)}
        \cup {Put(EmptyTable, StoredKey, [NoRecord EXCEPT !.newsArray = l]) :
                l \in NewsLists}

DepthQueries ==
    {NoQuery, EmptyQuery, IntQuery(100)}
        \cup {IntQuery(n) : n \in (0 - 2)..MaxDepthAsked}

RelatedEvents ==
    {RelatedEvent("ml", "weekly", id, d, ok) :
        id \in AskedIds \ {Nil}, d \in DepthQueries, ok \in BOOLEAN}
    \cup {RelatedEvent(Undefined, Undefined, Nil, d, TRUE) : d \in DepthQueries}

InitDeep ==
    /\ Idle
    /\ cache \in RelatedTables
    /\ pending \in RelatedEvents
    /\ registry = EmptyTable
    /\ live = {}

NextDeep == HandleRelated

\* one deep-dive request against a table of every shape
SpecDeep == InitDeep /\ [][NextDeep]_vars

-----------------------------------------------------------------------------
(* Properties: the news cascade *)

OutcomeOf(w, p) ==
    CASE p = "perplexity" -> w.pplx
      [] p = "gemini" -> w.gem
      [] OTHER -> w.gpt

\* provider p answered with at least one item
ReturnedItems(w, p) == OutcomeOf(w, p).st = "ok" /\ OutcomeOf(w, p).n >= 1

\* the first provider of the order Perplexity, Gemini, ChatGPT that answered
\* with at least one item
FirstWithItems(w) ==
    CASE ReturnedItems(w, "perplexity") -> "perplexity"
      [] ReturnedItems(w, "gemini") -> "gemini"
      [] ReturnedItems(w, "chatgpt") -> "chatgpt"
      [] OTHER -> "none"

NewsAnswered == resp.target = "news" /\ resp.status \in {"200", "returned"}

\* the provider the response names as the source of its items
ProviderUsed ==
    IF resp.summary = UnavailableSummary THEN "none" ELSE resp.summary[2]

AnsweredKey == CacheKey(resp.section, resp.timePeriod)

\* C1: in the news cascade the provider whose result is used for the response
\* and for the cache write is the first provider, in the order Perplexity,
\* Gemini, ChatGPT, that returned at least one item; an earlier provider that
\* succeeded with no items is passed over.
C1_FirstProviderWithItemsIsUsed ==
    (NewsAnswered /\ FirstWithItems(handled.world) # "none") =>
        LET p == FirstWithItems(handled.world)
        IN  /\ ProviderUsed = p
            /\ Len(resp.items) = Min(OutcomeOf(handled.world, p).n, MaxNewsItems)
            /\ \A i \in 1..Len(resp.items) : ~IsPlaceholderItem(resp.items[i])
            /\ ReadRecord(cache, AnsweredKey).newsArray = resp.items

\* C2: when every provider is unavailable or answers with no items, the news
\* response has exactly 3 items, all placeholders, and its verificationSummary
\* says that the providers were unavailable.
C2_ExhaustionGivesPlaceholders ==
    (NewsAnswered /\ FirstWithItems(handled.world) = "none") =>
        /\ Len(resp.items) = PlaceholderCount
        /\ \A i \in 1..Len(resp.items) : IsPlaceholderItem(resp.items[i])
        /\ resp.summary = UnavailableSummary

\* C10: an HTTP aggregation request (news or patents) with an unparseable body
\* is processed with the default section and timePeriod and answered with a
\* success response, the secret and the cache being available.
C10_MalformedBodyRecovered ==
    (/\ handled.kind = "http"
     /\ handled.bodyState = "malformed"
     /\ handled.world.secretsOk
     /\ handled.writeOk) =>
        /\ resp.status = "200"
        /\ resp.section = "ai"
        /\ resp.timePeriod = "daily"

-----------------------------------------------------------------------------
(* Properties: the cache record *)

WritesTo(key, slot) ==
    IF key \in DOMAIN writes
    THEN SelectSeq(writes[key], LAMBDA x : x.slot = slot)
    ELSE <<>>

SlotOf(rec, slot) ==
    IF slot = "news" THEN rec.newsArray ELSE rec.patentsArray

Range(s) == {s[i] : i \in 1..Len(s)}

\* C7: after successive successful refreshes of one key and content type the
\* record holds exactly the item list of the latest one (same items, same
\* order), in the news slot and in the patent slot.
C7_IdempotentReplace ==
    \A key \in DOMAIN cache, slot \in Targets :
        LET ws == WritesTo(key, slot)
        IN  Len(ws) >= 1 => SlotOf(cache[key], slot) = ws[Len(ws)].items

\* two refreshes of one slot with different item lists A then B have
\* completed, and the record holds B and no item of A
C7_TwoRefreshes(slot) ==
    \E key \in DOMAIN cache :
        LET ws == WritesTo(key, slot)
        IN  /\ Len(ws) = 2
            /\ ws[1].items # ws[2].items
            /\ SlotOf(cache[key], slot) = ws[2].items
            /\ Range(ws[1].items) \cap Range(SlotOf(cache[key], slot)) = {}

C7_Witness ==
    /\ pending = NoEvent
    /\ C7_TwoRefreshes(handled.target)

-----------------------------------------------------------------------------
(* Properties: the sweep and its notification *)

SweepEnded == exec.status \in {"SUCCEEDED", "FAILED"}

Unprocessed == {p \in DOMAIN pairSt : pairSt[p] \in {"waiting", "newsDone"}}

\* the connections that received the 'refresh' message of the broadcast
Delivered == broadcast.attempted \ broadcast.failed

\* C3: when the sweep has ended, every (section, period) pair has been
\* processed: a pair other than the one whose Lambda threw has run both of its
\* tasks and has its record in the cache; no pair is left unprocessed because
\* another pair failed.
C3_SweepIndependence ==
    SweepEnded =>
        \A p \in SweepPairs :
            pairSt[p] # "failed" =>
                /\ pairSt[p] = "done"
                /\ CacheKey(p[1], p[2]) \in DOMAIN cache

\* C4: no subscriber has received the 'refresh' message of a refresh while
\* pairs of the sweep it announces are still unprocessed.
C4_NotifyAfterSweep ==
    Delivered # {} => (SweepEnded /\ Unprocessed = {})

\* the handler's broadcast step
BroadcastStep == trig.pc = "started" /\ trig'.pc = "done" /\ trig'.result = "202"

\* C5: a broadcast leaves no connection whose push failed in the registry.
C5_FailedPushIsPruned ==
    [][BroadcastStep => broadcast'.failed \cap DOMAIN registry' = {}]_vars

-----------------------------------------------------------------------------
(* Properties: the deep dive *)

RelatedAnswered == handled.target = "related" /\ resp.status = "200"

\* the item the handler returns when the same request asks for depth d
ItemAtDepth(d) ==
    RelatedResponse([handled EXCEPT !.depth = IntQuery(d)], cache,
                    <<"related">>).item

RECURSIVE Levels(_)
Levels(item) ==
    IF item.related.isArray /\ item.related.list # <<>>
    THEN LET below == {Levels(item.related.list[i]) :
                            i \in 1..Len(item.related.list)}
         IN  1 + CHOOSE m \in below : \A x \in below : x <= m
    ELSE 1

\* C8: for the same record and item, a requested depth above 5 returns the
\* item that depth 5 returns, a requested depth below 1 returns the item that
\* depth 1 returns, and an omitted depth returns the item that depth 3 returns.
C8_DepthClamp ==
    RelatedAnswered =>
        /\ (handled.depth.kind = "int" /\ handled.depth.n > 5) =>
                resp.item = ItemAtDepth(5)
        /\ (handled.depth.kind = "int" /\ handled.depth.n < 1) =>
                resp.item = ItemAtDepth(1)
        /\ handled.depth.kind = "absent" => resp.item = ItemAtDepth(3)

StoredNews == ReadRecord(cache, CacheKey(resp.section, resp.period)).newsArray

\* a depth above 5 was asked of an item stored with more than 5 levels, and
\* the answer has 5
C8_Witness ==
    /\ RelatedAnswered
    /\ handled.depth.kind = "int"
    /\ handled.depth.n > 5
    /\ Len(StoredNews) = 1
    /\ Levels(StoredNews[1]) > 5
    /\ resp.item.id = StoredNews[1].id
    /\ Levels(resp.item) = 5

AskedId == parseRelatedRequest(handled).itemId

IdHits == {i \in 1..Len(StoredNews) : StoredNews[i].id = AskedId}

TitleHits ==
    {i \in 1..Len(StoredNews) :
        /\ StoredNews[i].title # Nil
        /\ includes(toLowerCase(StoredNews[i].title), toLowerCase(AskedId))}

Lowest(S) == CHOOSE i \in S : \A j \in S : i <= j

\* the response carries stored item i
AnswersWith(i) ==
    /\ resp.item.id = StoredNews[i].id
    /\ resp.item.summary = StoredNews[i].summary

\* C9: after a successful read the response is a 200 whose item is the first
\* stored item with the requested id if there is one, else the first stored
\* item whose title contains the requested id ignoring case, else the
\* placeholder carrying the requested id.
C9_LookupOrder ==
    (handled.target = "related" /\ handled.readOk) =>
        /\ resp.status = "200"
        /\ IF IdHits # {} THEN AnswersWith(Lowest(IdHits))
           ELSE IF TitleHits # {} THEN AnswersWith(Lowest(TitleHits))
           ELSE /\ resp.item.id = AskedId
                /\ resp.item.title[1] = "Deep dive for"

\* the item with the requested id was returned although an item with a
\* matching title comes before it in the list
C9_Witness ==
    /\ RelatedAnswered
    /\ IdHits # {}
    /\ TitleHits # {}
    /\ Lowest(TitleHits) < Lowest(IdHits)
    /\ AnswersWith(Lowest(IdHits))
    /\ ~AnswersWith(Lowest(TitleHits))

-----------------------------------------------------------------------------
(* Properties: failures of the pipelines *)

Succeeded == resp.status \in {"200", "returned"}

\* a request that can be parsed, with the secret and the cache available
Serviceable ==
    /\ handled.target \in Targets
    /\ handled.bodyState # "malformed"
    /\ handled.world.secretsOk
    /\ handled.writeOk

\* C11: whatever the provider calls do (absent key, failed call, empty
\* answer), a news or patent request that can be parsed, with the secret and
\* the cache available, is answered with a success response.
C11_ProviderFailureNotSurfaced == Serviceable => Succeeded

-----------------------------------------------------------------------------
(* Properties: what a sweep covers *)

\* C13: the pairs the sweep iterates over are the sections of the trigger
\* payload crossed with its timePeriods (defaults for omitted fields), within
\* the iterations the model sweeps.
C13_TriggerOverrides ==
    exec.status # "none" =>
        DOMAIN pairSt =
            {p \in SweepPairs :
                /\ p[1] \in Range(exec.sections)
                /\ p[2] \in Range(exec.timePeriods)}

\* the content types written to the key of pair p so far, oldest first
SlotsWritten(p) ==
    LET key == CacheKey(p[1], p[2])
    IN  IF key \in DOMAIN writes
        THEN [i \in 1..Len(writes[key]) |-> writes[key][i].slot]
        ELSE <<>>

-----------------------------------------------------------------------------
(* Properties: the generated lists and their scores *)

\* every item list written to the table so far
WrittenLists ==
    UNION {{writes[key][i].items : i \in 1..Len(writes[key])} :
                key \in DOMAIN writes}

\* C15: every item list written to the cache and every item list of a
\* success response has at least 1 and at most 10 items.
C15_NoEmptyGeneration ==
    /\ \A l \in WrittenLists : Len(l) >= 1 /\ Len(l) <= 10
    /\ (handled.target \in Targets /\ Succeeded) =>
            (Len(resp.items) >= 1 /\ Len(resp.items) <= 10)

\* a provider answered with more than 10 items and 10 were written and
\* returned
C15_Witness ==
    /\ Succeeded
    /\ handled.world.pplx.st = "ok"
    /\ handled.world.pplx.n > 10
    /\ Len(resp.items) = 10
    /\ resp.items \in WrittenLists

NoCredentials(w) ==
    /\ w.secretsOk
    /\ w.pplx.st = "absent"
    /\ w.gem.st = "absent"
    /\ w.gpt.st = "absent"

\* C16: a news request with no provider key configured and a working cache
\* succeeds with exactly 3 items, each with a score from 50 to 60, and the
\* summary that says the providers were unavailable; no provider is called.
C16_NoCredentials ==
    (/\ handled.target = "news"
     /\ handled.bodyState # "malformed"
     /\ NoCredentials(handled.world)
     /\ handled.writeOk) =>
        /\ Succeeded
        /\ Len(resp.items) = 3
        /\ \A i \in 1..Len(resp.items) :
            /\ resp.items[i].verificationScore >= 50
            /\ resp.items[i].verificationScore <= 60
        /\ resp.summary = UnavailableSummary
        /\ calls = <<>>

\* such a request has been answered over HTTP
C16_Witness ==
    /\ handled.target = "news"
    /\ handled.kind = "http"
    /\ NoCredentials(handled.world)
    /\ handled.writeOk
    /\ resp.status = "200"
    /\ Len(resp.items) = 3

\* the confidence of the provider the response names, in thousandths
SelectedConfidence ==
    CASE ProviderUsed = "perplexity" -> handled.world.conf
      [] ProviderUsed = "gemini" -> GeminiConfidence
      [] OTHER -> ChatGptConfidence

SelectedCount == OutcomeOf(handled.world, ProviderUsed).n

\* C17: when the selected provider returned n >= 1 items with confidence c in
\* [0,1], the news output has min(n,10) items in the provider's order and
\* every one of them has the score round(100 * c), an integer from 0 to 100.
C17_SharedScore ==
    (/\ NewsAnswered
     /\ ProviderUsed # "none"
     /\ SelectedCount >= 1
     /\ SelectedConfidence >= 0
     /\ SelectedConfidence <= 1000) =>
        /\ Len(resp.items) = Min(SelectedCount, 10)
        /\ \A i \in 1..Len(resp.items) :
            LET score == resp.items[i].verificationScore
                raw == RawItem(ProviderUsed, i, handled.world.shape)
            IN  /\ score >= 0 /\ score <= 100
                /\ 10 * score - SelectedConfidence >= 0 - 4
                /\ 10 * score - SelectedConfidence <= 5
                /\ raw.id # Nil => resp.items[i].id = raw.id

\* Perplexity answered 2 items at confidence 0.9 while Gemini had items too,
\* and the output is Perplexity's 2 items at score 90
C17_Witness ==
    /\ NewsAnswered
    /\ ProviderUsed = "perplexity"
    /\ handled.world.conf = 900
    /\ handled.world.pplx.n = 2
    /\ handled.world.gem.st = "ok"
    /\ handled.world.gem.n > 2
    /\ Len(resp.items) = 2
    /\ \A i \in 1..Len(resp.items) : resp.items[i].verificationScore = 90

\* Perplexity answered with items and a confidence under 0.8
LowConfidenceAnswer ==
    /\ handled.world.pplx.st = "ok"
    /\ handled.world.pplx.n >= 1
    /\ handled.world.conf # NoConf
    /\ handled.world.conf < 800

\* C18: when Perplexity answers with confidence below 0.8, or its call
\* fails, the news cascade goes on to Gemini and the Perplexity result is not
\* the one used.
C18_ConfidenceThreshold ==
    (/\ NewsAnswered
     /\ LowConfidenceAnswer \/ handled.world.pplx.st = "fail") =>
        /\ ProviderUsed # "perplexity"
        /\ handled.world.gem.st # "absent" =>
                \E i \in 1..Len(calls) : calls[i] = "gemini"

\* neither the body nor the query string (HTTP) nor the payload (direct
\* invocation) names a section or a time period
BothOmitted ==
    /\ handled.bodyState # "malformed"
    /\ handled.body = NoFields
    /\ handled.qs = NoFields

\* C19: a news or patent request that omits section and timePeriod, over
\* HTTP or as a direct invocation, is served as section 'ai' and period
\* 'daily', and the cache key written is ai#daily.
C19_RequestDefaults ==
    (handled.target \in Targets /\ BothOmitted /\ Succeeded) =>
        /\ resp.section = "ai"
        /\ resp.timePeriod = "daily"
        /\ DOMAIN writes = {CacheKey("ai", "daily")}

\* score is within half a point of the mean of the field over the items
IsRoundedMean(score, items, field) ==
    LET n == Len(items)
        sum == SumScores(items, field)
    IN  /\ n >= 1
        /\ 2 * n * score - 2 * sum <= n
        /\ 2 * sum - 2 * n * score <= n

\* C20: in every cache record, the record-level score written with an item
\* list (verificationScore with newsArray, patentImpactAverage with
\* patentsArray) is the rounded mean of the scores of the items of that list.
C20_AggregateScoreIsMean ==
    \A key \in DOMAIN cache :
        /\ cache[key].newsArray # Nil =>
                IsRoundedMean(cache[key].verificationScore,
                              cache[key].newsArray, "verificationScore")
        /\ cache[key].patentsArray # Nil =>
                IsRoundedMean(cache[key].patentImpactAverage,
                              cache[key].patentsArray, "impactScore")

-----------------------------------------------------------------------------
(* Properties: failed pairs, concurrent refreshes and the record's slots *)

FailedPairs == {p \in DOMAIN pairSt : pairSt[p] = "failed"}

\* C21: a pair whose pipeline failed during the sweep (at its news step or at
\* its patent step) has the cache record it had before the pair started;
\* the sweep starts on an empty table, so the key of a failed pair is absent.
C21_FailedPairUnchanged ==
    \A p \in FailedPairs : CacheKey(p[1], p[2]) \notin DOMAIN cache

Completed == {i \in Refreshers : running[i].pc = "done"}

RaceOver == \A i \in Refreshers : running[i].pc \in {"done", "failed"}

RaceKey == CacheKey("ai", "daily")

\* C22: when two news refreshes of one key run concurrently, a reader of the
\* record sees at every moment the complete item list of one refresh whose
\* write has completed, and once both are over the list is that of the
\* refresh whose write completed last.
C22_LastWriteWins ==
    /\ \A key \in DOMAIN cache :
        \E i \in Completed : cache[key].newsArray = running[i].out.items
    /\ (RaceOver /\ RaceKey \in DOMAIN writes) =>
        LET ws == writes[RaceKey]
            last == ws[Len(ws)]
        IN  /\ cache[RaceKey].newsArray = last.items
            /\ cache[RaceKey].verifiedAt = last.at

\* both refreshes have written, the one generated first wrote last, and the
\* record holds its list and no item of the other
C22_Witness ==
    /\ Completed = Refreshers
    /\ Len(writes[RaceKey]) = 2
    /\ writes[RaceKey][2].at < writes[RaceKey][1].at
    /\ cache[RaceKey].newsArray = writes[RaceKey][2].items
    /\ Range(cache[RaceKey].newsArray) \cap Range(writes[RaceKey][1].items) = {}

\* the step in which the refresh trigger handler pushes and ends
PushStep == trig.pc = "started" /\ trig'.pc = "done"

\* C27: in a broadcast where a push fails, a push has still been attempted to
\* every recipient of the list, and the refresh trigger handler returns its
\* 202 result.
C27_IndependentPushes ==
    [][(PushStep /\ broadcast'.failed # {}) =>
        /\ trig'.result = "202"
        /\ broadcast'.failed \subseteq broadcast'.attempted
        /\ broadcast'.attempted = Recipients(trig, registry)]_vars

\* a broadcast to two recipients in which one push failed and the other was
\* delivered, answered 202
C27_Witness ==
    /\ trig.pc = "done"
    /\ trig.result = "202"
    /\ Cardinality(broadcast.attempted) >= 2
    /\ broadcast.failed # {}
    /\ Delivered # {}

\* the keys a step writes: those whose history grows
StepKeys ==
    {k \in DOMAIN writes' :
        k \notin DOMAIN writes \/ Len(writes'[k]) > Len(writes[k])}

\* C24: a news write leaves the patent list and the patent aggregate of its
\* record as they were, a patent write leaves the news list and the news
\* score as they were, and no write changes the record of another key.
C24_IndependentSlots ==
    [][\A key \in DOMAIN cache \cup DOMAIN cache' :
        LET old == ReadRecord(cache, key)
            new == ReadRecord(cache', key)
        IN  /\ key \notin StepKeys => (key \in DOMAIN cache /\ new = old)
            /\ (key \in StepKeys /\ pending.target = "news") =>
                /\ new.patentsArray = old.patentsArray
                /\ new.patentImpactAverage = old.patentImpactAverage
            /\ (key \in StepKeys /\ pending.target = "patents") =>
                /\ new.newsArray = old.newsArray
                /\ new.verificationScore = old.verificationScore]_vars

\* a record received a patent write and then a news write, holds both lists,
\* and the patent list is the one the patent write stored
C24_Witness ==
    \E key \in DOMAIN cache :
        /\ Len(writes[key]) = 2
        /\ writes[key][1].slot = "patents"
        /\ writes[key][2].slot = "news"
        /\ cache[key].patentsArray = writes[key][1].items
        /\ cache[key].newsArray = writes[key][2].items

-----------------------------------------------------------------------------
(* Properties: the order of the provider calls, the items and the keys *)

\* the place of a provider in the priority order
Rank(p) ==
    CASE p = "perplexity" -> 1
      [] p = "gemini" -> 2
      [] p = "chatgpt" -> 3

ProvidersOf(target) ==
    IF target = "news" THEN {"perplexity", "gemini", "chatgpt"}
    ELSE {"perplexity", "chatgpt"}

NonEmptyText(t) == t # Nil /\ t # EmptyStr

NewsListsWritten ==
    UNION {{writes[key][i].items : i \in {j \in 1..Len(writes[key]) :
                                            writes[key][j].slot = "news"}} :
                key \in DOMAIN writes}

\* C28: every news item written to the cache or returned has a non-empty
\* title and a non-empty summary, whatever the shape of the raw provider
\* items, raw items with an empty-string title or summary included.
C28_NonEmptyText ==
    /\ NewsAnswered =>
        \A i \in 1..Len(resp.items) :
            /\ NonEmptyText(resp.items[i].title)
            /\ NonEmptyText(resp.items[i].summary)
    /\ \A l \in NewsListsWritten :
        \A i \in 1..Len(l) :
            /\ NonEmptyText(l[i].title)
            /\ NonEmptyText(l[i].summary)

SectionEnum == {"ml", "ai", "iot", "quantum"}

PeriodEnum == {"daily", "weekly", "monthly", "yearly"}

\* C29: every key of a cache record is a section of {ml, ai, iot, quantum}
\* with a period of {daily, weekly, monthly, yearly}, whatever section and
\* timePeriod strings the requests carried.
C29_ClosedKeySpace ==
    \A key \in DOMAIN cache \cup DOMAIN writes :
        key \in {CacheKey(sec, per) : sec \in SectionEnum, per \in PeriodEnum}

-----------------------------------------------------------------------------
(* Properties: the size of the deep-dive expansion *)

\* the item the handled request expands, and the depth it passes
RelatedTarget ==
    LET request == parseRelatedRequest(handled)
        cached == fetchCached(cache, request.section, request.period)
        candidates == IF cached.found THEN cached.item.newsArray ELSE <<>>
    IN  FindTarget(candidates, request.itemId,
                   buildPlaceholder(request.section, request.period,
                                    request.itemId, <<"related">>))

\* min(max(d, 1), 5) for the requested depth d, 3 when none is given
DepthBudget ==
    LET asked == parseRelatedRequest(handled).depth
        d == IF asked.given THEN asked.n ELSE 3
    IN  Min(Max(d, 1), 5)

RECURSIVE NodeCount(_)
NodeCount(item) ==
    IF item.related.isArray
    THEN 1 + SumSeq([i \in 1..Len(item.related.list) |->
                        NodeCount(item.related.list[i])])
    ELSE 1

RECURSIVE AtMostThreeWide(_)
AtMostThreeWide(item) ==
    item.related.isArray =>
        /\ Len(item.related.list) <= 3
        /\ \A i \in 1..Len(item.related.list) :
                AtMostThreeWide(item.related.list[i])

\* C30: the returned item has at most min(max(d,1),5) levels, the target
\* being level 1, every node of it has at most 3 related children, and
\* expandRelated is called only for the nodes of the returned item, that is
\* only within the depth budget.
C30_BoundedExpansion ==
    RelatedAnswered =>
        /\ Levels(resp.item) <= DepthBudget
        /\ AtMostThreeWide(resp.item)
        /\ expandRelatedCalls(RelatedTarget,
                EffectiveDepth(parseRelatedRequest(handled).depth))
                    = NodeCount(resp.item)

====
